---------------------------- MODULE Spec2Model ----------------------------
(***************************************************************************)
(* Model of options-window-gtk (src/src/main.rs): the command line parser  *)
(* Configuration::new, the control flow of main with its two launch modes, *)
(* and the terminal strategy with its script/link relaunch protocol.       *)
(*                                                                         *)
(* An OsString is a sequence of bytes and a String a sequence of chars;    *)
(* both are sequences of one-character strings here.  The byte 0xFF is the *)
(* one byte that is not valid UTF-8 in the modelled alphabet.              *)
(***************************************************************************)
EXTENDS Integers, Sequences, FiniteSets, TLC

(***************************************************************************)
(* Bounds of the model.                                                    *)
(***************************************************************************)
\* longest argument list (after argv[0]) drawn exhaustively from Tokens
MaxArgs == 2
\* most flag groups concatenated into one argument list
MaxGroups == 3
\* most button presses handled by one dialog
MaxClicks == 2
\* most button presses followed per dialog in SpecOnce
MaxPresses == 1

(***************************************************************************)
(* Strings and bytes.                                                      *)
(***************************************************************************)
InvalidByte == "0xFF"
ReplacementChar == "U+FFFD"

Upper == <<"A","B","C","D","E","F","G","H","I","J","K","L","M",
           "N","O","P","Q","R","S","T","U","V","W","X","Y","Z">>
Lower == <<"a","b","c","d","e","f","g","h","i","j","k","l","m",
           "n","o","p","q","r","s","t","u","v","w","x","y","z">>

\* u8::to_ascii_lowercase / char::to_ascii_lowercase
ToAsciiLower(c) ==
    IF \E i \in 1..Len(Upper) : Upper[i] = c
    THEN Lower[CHOOSE i \in 1..Len(Upper) : Upper[i] = c]
    ELSE c

\* EqIgnoreAsciiCase with a fault: the comparison minds the case
EqIgnoreAsciiCase_exact(s, t) == s = t

\* str::eq_ignore_ascii_case
EqIgnoreAsciiCase(s, t) ==
    /\ Len(s) = Len(t)
    /\ \A i \in 1..Len(s) : ToAsciiLower(s[i]) = ToAsciiLower(t[i])

\* OsStr::to_string_lossy: invalid UTF-8 becomes U+FFFD, the rest is kept
ToStringLossy(os) ==
    [i \in 1..Len(os) |-> IF os[i] = InvalidByte THEN ReplacementChar ELSE os[i]]

\* <[u8]>::starts_with
StartsWith(s, pre) ==
    /\ Len(s) >= Len(pre)
    /\ SubSeq(s, 1, Len(pre)) = pre

\* str::ends_with
EndsWith(s, suf) ==
    /\ Len(s) >= Len(suf)
    /\ SubSeq(s, Len(s) - Len(suf) + 1, Len(s)) = suf

(***************************************************************************)
(* The literals of the program.                                            *)
(***************************************************************************)
PROGRAM_NAME ==
    <<"o","p","t","i","o","n","s","-","w","i","n","d","o","w","-","g","t","k">>
DotCmd == <<".","c","m","d">>
Dash == <<"-">>
StrWarning == <<"w","a","r","n","i","n","g">>
StrError == <<"e","r","r","o","r">>
DefaultMessage ==
    <<"T","h","i","s"," ","c","o","u","l","d"," ","b","e"," ","y",
      "o","u","r"," ","t","e","x","t","!">>

F_m == <<"-","m">>
F_message == <<"-","-","m","e","s","s","a","g","e">>
F_t == <<"-","t">>
F_type == <<"-","-","t","y","p","e">>
F_b == <<"-","b">>
F_button == <<"-","-","b","u","t","t","o","n">>
F_B == <<"-","B">>
F_button_no_terminal ==
    <<"-","-","b","u","t","t","o","n","-","n","o","-","t","e","r","m","i","n","a","l">>
F_exit_after_action ==
    <<"-","-","e","x","i","t","-","a","f","t","e","r","-","a","c","t","i","o","n">>
F_f == <<"-","f">>
F_font == <<"-","-","f","o","n","t">>
F_h == <<"-","h">>
F_help == <<"-","-","h","e","l","p">>
F_v == <<"-","v">>
F_version == <<"-","-","v","e","r","s","i","o","n">>

MsgMissingM == "Required argument for -m is missing."
MsgMissingT == "Required argument for -t is missing."
MsgMissingLabel == "Missing label for Button."
MsgMissingAction == "Missing action for Button."
MsgWrongType == "Parameter for -t ({}) was neither warning nor error."
MsgUnexpected == "Unexpected argument: {}"

(***************************************************************************)
(* ParseError and its constructors.  A message is a format string and the  *)
(* text substituted for {} in it.                                          *)
(***************************************************************************)
NoError == [error_type |-> "None", message |-> <<"", <<>> >>]

\* missing_argument with a fault: the error type of wrong_argument
missing_argument_wrong_type(msg) ==
    [error_type |-> "WrongArgument", message |-> <<msg, <<>> >>]

missing_argument(msg) ==
    [error_type |-> "MissingArgument", message |-> <<msg, <<>> >>]

wrong_argument(fmt, text) ==
    [error_type |-> "WrongArgument", message |-> <<fmt, text>>]

help_requested == [error_type |-> "HelpRequested", message |-> <<"", <<>> >>]

version_requested ==
    [error_type |-> "VersionInfoRequested", message |-> <<"", <<>> >>]

(***************************************************************************)
(* Configuration, Button, Command.                                         *)
(***************************************************************************)
\* Option<T>
None == [some |-> FALSE]
Some(v) == [some |-> TRUE, val |-> v]

\* Command::new
NewCommand(command, exec) == [command |-> command, exec |-> exec]

\* the Configuration that Configuration::new starts from
InitialConfiguration ==
    [ buttons |-> <<>>,
      message_type |-> "ERROR",
      exit_after_action |-> FALSE,
      message |-> DefaultMessage ]

\* Configuration::get_argument; pos counts from 0 as in the program
get_argument(pos, args) ==
    IF pos < Len(args) THEN Some(args[pos + 1]) ELSE None

\* create_button with a fault: every token after ACTION is taken as the icon
create_button_no_look_ahead(pos, args, cmd_func) ==
    LET label_opt == get_argument(pos + 1, args)
        action_opt == get_argument(pos + 2, args)
        icon_opt == get_argument(pos + 3, args)
    IN  IF ~label_opt.some
        THEN [ok |-> FALSE, pos |-> pos + 1,
              err |-> missing_argument(MsgMissingLabel)]
        ELSE IF ~action_opt.some
        THEN [ok |-> FALSE, pos |-> pos + 2,
              err |-> missing_argument(MsgMissingAction)]
        ELSE [ok |-> TRUE,
              pos |-> IF icon_opt.some THEN pos + 3 ELSE pos + 2,
              button |->
                  [label |-> ToStringLossy(label_opt.val),
                   icon |-> icon_opt,
                   command |-> NewCommand(action_opt.val, cmd_func)]]

\* Configuration::create_button, called with the cursor on the flag:
\* the cursor it leaves behind and either the button or the error
create_button(pos, args, cmd_func) ==
    LET label_opt == get_argument(pos + 1, args)
        action_opt == get_argument(pos + 2, args)
        icon_opt == get_argument(pos + 3, args)
    IN  IF ~label_opt.some
        THEN [ok |-> FALSE, pos |-> pos + 1,
              err |-> missing_argument(MsgMissingLabel)]
        ELSE IF ~action_opt.some
        THEN [ok |-> FALSE, pos |-> pos + 2,
              err |-> missing_argument(MsgMissingAction)]
        ELSE LET taken == icon_opt.some /\ ~StartsWith(icon_opt.val, Dash)
             IN  [ok |-> TRUE,
                  pos |-> IF taken THEN pos + 3 ELSE pos + 2,
                  button |->
                      [label |-> ToStringLossy(label_opt.val),
                       icon |-> IF taken THEN Some(icon_opt.val) ELSE None,
                       command |-> NewCommand(action_opt.val, cmd_func)]]

\* PushButton with a fault: the new button goes to the front
PushButton_front(buttons, button) == <<button>> \o buttons

\* Vec::push of the new button
PushButton(buttons, button) == Append(buttons, button)

(***************************************************************************)
(* The state.  procs is the process table: procs[1] is the process the     *)
(* user started, later entries are the processes a terminal emulator       *)
(* started from a link.  Every process runs main.                          *)
(*                                                                         *)
(*   args       argv of the process                                        *)
(*   pc         where the process is in main                               *)
(*   mode       the branch main took on argv[0]: NormalLaunch or           *)
(*              ScriptRelaunch, not_selected before the test               *)
(*   pos        the cursor of Configuration::new                           *)
(*   config     the Configuration under construction, then the result      *)
(*   err        the ParseError returned, NoError when there is none        *)
(*   exit_code  the local of main                                          *)
(*   shown      window.show_all() has run                                  *)
(*   visited    history: the cursor at each iteration of the parse loop    *)
(*   removal    outcome of remove_file(&args[0]): none, ok or failed       *)
(*   script     the path run_script handed to /bin/sh, or None             *)
(*   spawned    outcome of spawn() in run_script: none, ok or failed       *)
(*   waited     outcome of wait() in run_script: none, ok or failed        *)
(*   clicks     button presses handled so far                              *)
(*   calls      history: the Command::execute calls of those presses: the  *)
(*              button, its command, the suffix drawn and the first step   *)
(*              that failed                                                *)
(*   sh         the /bin/sh child of run_script: its state, the lines of   *)
(*              the script it opened, the next line, the commands it ran   *)
(*   origin     history: the entry of children that started the process,   *)
(*              0 for the process the user started                         *)
(*   status     running, exited (with exit_status) or panicked             *)
(* fs is the temp directory: a set of files.  tmpdir is the directory's    *)
(* name as exec_in_terminal resolves it.  children are the child processes *)
(* spawned by Command::execute, in spawn order.                            *)
(***************************************************************************)
VARIABLES procs, fs, tmpdir, children

vars == <<procs, fs, tmpdir, children>>

NoShell == [state |-> "none", lines |-> <<>>, next |-> 1, ran |-> <<>>]

\* a process at the entry of main
NewProcess(args, origin) ==
    [ args |-> args,
      origin |-> origin,
      sh |-> NoShell,
      pc |-> "start",
      mode |-> "not_selected",
      pos |-> 0,
      config |-> InitialConfiguration,
      err |-> NoError,
      exit_code |-> 0,
      shown |-> FALSE,
      visited |-> <<>>,
      removal |-> "none",
      script |-> None,
      spawned |-> "none",
      waited |-> "none",
      clicks |-> 0,
      calls |-> <<>>,
      status |-> "running",
      exit_status |-> 0 ]

(***************************************************************************)
(* Configuration::new: one operator per branch of the loop body.  Each     *)
(* takes the process at the top of an iteration (pos < args.len()) and     *)
(* gives it back after the iteration, the trailing pos += 1 included.      *)
(***************************************************************************)
\* the token under the cursor: let a = &args[pos]
CurrentArg(P) == P.args[P.pos + 1]

\* return Err(e) with the cursor where the branch left it
ReturnErr(P, pos, e) == [P EXCEPT !.pos = pos, !.err = e, !.pc = "error"]

\* -m | --message
NewMessage(P) ==
    LET msg_opt == get_argument(P.pos + 1, P.args)
    IN  IF ~msg_opt.some
        THEN ReturnErr(P, P.pos + 1, missing_argument(MsgMissingM))
        ELSE [P EXCEPT !.config.message = ToStringLossy(msg_opt.val),
                       !.pos = P.pos + 2]

\* NewType with a fault: the operand error assigns ERROR
NewType_error_assigns(P) ==
    LET type_opt == get_argument(P.pos + 1, P.args)
    IN  IF ~type_opt.some
        THEN ReturnErr(P, P.pos + 1, missing_argument(MsgMissingT))
        ELSE LET msg_type == ToStringLossy(type_opt.val)
             IN  IF EqIgnoreAsciiCase(msg_type, StrWarning)
                 THEN [P EXCEPT !.config.message_type = "WARNING",
                                !.pos = P.pos + 2]
                 ELSE IF ~EqIgnoreAsciiCase(msg_type, StrError)
                 THEN ReturnErr(P, P.pos + 1,
                                wrong_argument(MsgWrongType, msg_type))
                 ELSE [P EXCEPT !.config.message_type = "ERROR",
                                !.pos = P.pos + 2]

\* -t | --type
NewType(P) ==
    LET type_opt == get_argument(P.pos + 1, P.args)
    IN  IF ~type_opt.some
        THEN ReturnErr(P, P.pos + 1, missing_argument(MsgMissingT))
        ELSE LET msg_type == ToStringLossy(type_opt.val)
             IN  IF EqIgnoreAsciiCase(msg_type, StrWarning)
                 THEN [P EXCEPT !.config.message_type = "WARNING",
                                !.pos = P.pos + 2]
                 ELSE IF ~EqIgnoreAsciiCase(msg_type, StrError)
                 THEN ReturnErr(P, P.pos + 1,
                                wrong_argument(MsgWrongType, msg_type))
                 ELSE [P EXCEPT !.pos = P.pos + 2]

\* -b | --button (cmd_func = exec_in_terminal) and
\* -B | --button-no-terminal (cmd_func = exec_in_shell)
NewButton(P, cmd_func) ==
    LET r == create_button(P.pos, P.args, cmd_func)
    IN  IF ~r.ok
        THEN ReturnErr(P, r.pos, r.err)
        ELSE [P EXCEPT !.config.buttons = PushButton(@, r.button),
                       !.pos = r.pos + 1]

\* NewExitAfterAction with a fault: the trailing pos += 1 is skipped
NewExitAfterAction_stays(P) ==
    [P EXCEPT !.config.exit_after_action = TRUE]

\* --exit-after-action
NewExitAfterAction(P) ==
    [P EXCEPT !.config.exit_after_action = TRUE, !.pos = P.pos + 1]

\* NewFont with a fault: the operand is left for the next iteration
NewFont_no_operand(P) == [P EXCEPT !.pos = P.pos + 1]

\* -f | --font
NewFont(P) == [P EXCEPT !.pos = P.pos + 2]

\* NewHelp with a fault: help is noted at the end of the parse, so the loop
\* goes on
NewHelp_deferred(P) == [P EXCEPT !.pos = P.pos + 1]

\* -h | --help
NewHelp(P) == ReturnErr(P, P.pos, help_requested)

\* -v | --version
NewVersion(P) == ReturnErr(P, P.pos, version_requested)

\* NewUnexpected with a fault: the token is skipped
NewUnexpected_skip(P) == [P EXCEPT !.pos = P.pos + 1]

\* any other token
NewUnexpected(P) ==
    ReturnErr(P, P.pos,
              wrong_argument(MsgUnexpected, ToStringLossy(CurrentArg(P))))

\* handle_error with a fault: only help exits with 0
handle_error_version_fails(err) ==
    IF err.error_type = "HelpRequested" THEN 0 ELSE 1

\* handle_error: the exit code for a ParseError
handle_error(err) ==
    IF err.error_type = "HelpRequested" THEN 0
    ELSE IF err.error_type = "VersionInfoRequested" THEN 0
    ELSE 1

\* IsNormalLaunch with a fault: the test leaves out the dot
IsNormalLaunch_no_dot(args) ==
    ~EndsWith(ToStringLossy(args[1]), <<"c","m","d">>)

\* main's test of argv[0]: TRUE for a normal launch
IsNormalLaunch(args) == ~EndsWith(ToStringLossy(args[1]), DotCmd)

(***************************************************************************)
(* Paths and the two file names of the terminal strategy.                  *)
(***************************************************************************)
Slash == "/"
DEFAULT_TERMINAL == "i3-sensible-terminal"

\* PathBuf::push of a relative file name
PathPush(dir, name) ==
    IF dir = <<>> \/ dir[Len(dir)] = Slash
    THEN dir \o name
    ELSE dir \o <<Slash>> \o name

\* ScriptName with a fault: the suffix is left out of the name
ScriptName_no_suffix(rnd) == PROGRAM_NAME \o <<".","s","h">>

\* format!("{}_{}.sh", PROGRAM_NAME, rnd)
ScriptName(rnd) == PROGRAM_NAME \o <<"_">> \o rnd \o <<".","s","h">>

\* format!("{}_{}.cmd", PROGRAM_NAME, rnd)
LinkName(rnd) == PROGRAM_NAME \o <<"_">> \o rnd \o <<".","c","m","d">>

\* script_path and link_path of exec_in_terminal
ScriptPath(dir, rnd) == PathPush(dir, ScriptName(rnd))
LinkPath(dir, rnd) == PathPush(dir, LinkName(rnd))

\* RunScriptPath with a fault: the whole extension is cut
RunScriptPath_cut_extension(cmd) ==
    SubSeq(cmd, 1, Len(cmd) - 4) \o <<"s","h">>

\* run_script: the script path derived from argv[0],
\* cmd.as_bytes()[..cmd.len() - 3] followed by "sh"
RunScriptPath(cmd) == SubSeq(cmd, 1, Len(cmd) - 3) \o <<"s","h">>

(***************************************************************************)
(* The temp directory: a function from paths to files.                     *)
(***************************************************************************)
EmptyFs == <<>>

Exists(files, path) == path \in DOMAIN files

\* the file system with path bound to file
WithFile(files, path, file) ==
    [q \in DOMAIN files \cup {path} |-> IF q = path THEN file ELSE files[q]]

\* the file system without path
WithoutFile(files, path) == [q \in DOMAIN files \ {path} |-> files[q]]

\* the three lines exec_in_terminal writes
ScriptLines(script_path, command) ==
    << [op |-> "shebang"],
       [op |-> "rm", arg |-> script_path],
       [op |-> "command", arg |-> command] >>

\* ScriptFile with a fault: the permissions are never set
ScriptFile_no_mode(mode, script_path, command, n) ==
    [kind |-> "file", mode |-> "default",
     lines |-> SubSeq(ScriptLines(script_path, command), 1, n)]

\* the script file after File::create, set_mode(0o700) and n lines written
ScriptFile(mode, script_path, command, n) ==
    [kind |-> "file", mode |-> mode,
     lines |-> SubSeq(ScriptLines(script_path, command), 1, n)]

\* the symlink to std::env::current_exe()
LinkFile == [kind |-> "symlink", target |-> "current_exe"]

(***************************************************************************)
(* The execution strategies.  Each gives the file system it leaves and the *)
(* child it spawned, or None for an Err (which Command::execute turns into *)
(* a panic).  outcome names the first step that fails.                     *)
(***************************************************************************)
ShellOutcomes == {"spawn", "ok"}

\* exec_in_shell: /bin/sh -c <command>
exec_in_shell(command, outcome, files) ==
    [fs |-> files,
     child |-> IF outcome = "ok"
               THEN Some([kind |-> "shell", arg |-> command.command,
                          script |-> <<>>, command |-> command.command,
                          started |-> FALSE])
               ELSE None]

\* the first step of exec_in_terminal that fails: File::create, metadata,
\* set_permissions, the write_all calls of the rm line, those of the
\* command line, symlink (or current_exe), the spawn of the terminal; or none
TerminalOutcomes ==
    {"create", "metadata", "set_permissions", "write_rm", "write_command",
     "symlink", "spawn", "ok"}

\* symlink(2) fails when the link path is taken
OutcomePossible(outcome, files, link_path) ==
    outcome \in {"spawn", "ok"} => ~Exists(files, link_path)

\* exec_in_terminal
exec_in_terminal(command, dir, rnd, outcome, files) ==
    LET script_path == ScriptPath(dir, rnd)
        link_path == LinkPath(dir, rnd)
        script(mode, n) == ScriptFile(mode, script_path, command.command, n)
        \* File::create truncates a file that is there and keeps its mode
        created ==
            IF Exists(files, script_path) /\ files[script_path].kind = "file"
            THEN files[script_path].mode
            ELSE "default"
        written ==
            CASE outcome = "create" -> files
              [] outcome = "metadata" ->
                    WithFile(files, script_path, script(created, 0))
              [] outcome = "set_permissions" ->
                    WithFile(files, script_path, script(created, 0))
              [] outcome = "write_rm" ->
                    WithFile(files, script_path, script("0o700", 1))
              [] outcome = "write_command" ->
                    WithFile(files, script_path, script("0o700", 2))
              [] OTHER ->
                    WithFile(files, script_path, script("0o700", 3))
        linked ==
            IF outcome \in {"spawn", "ok"}
            THEN WithFile(written, link_path, LinkFile)
            ELSE written
    IN  [fs |-> linked,
         child |-> IF outcome = "ok"
                   THEN Some([kind |-> "terminal", arg |-> link_path,
                              script |-> script_path,
                              command |-> command.command,
                              started |-> FALSE])
                   ELSE None]

(***************************************************************************)
(* main, one action per step.                                              *)
(***************************************************************************)
Update(p, P) ==
    /\ procs' = [procs EXCEPT ![p] = P]
    /\ UNCHANGED <<fs, tmpdir, children>>

\* Panicked with a fault: the failure is dropped and main goes on to its
\* process::exit(exit_code)
Panicked_exits(P) == [P EXCEPT !.pc = "exit"]

\* a failed expect(): the process aborts
Panicked(P) == [P EXCEPT !.pc = "panicked", !.status = "panicked"]

\* main, lines 410-412: the mode is chosen from argv[0]
MainStart(p) ==
    /\ procs[p].pc = "start"
    /\ Update(p, IF IsNormalLaunch(procs[p].args)
                 THEN [procs[p] EXCEPT !.mode = "NormalLaunch",
                                       !.pc = "parse", !.pos = 1]
                 ELSE [procs[p] EXCEPT !.mode = "ScriptRelaunch",
                                       !.pc = "relaunch"])

\* one iteration of the loop of Configuration::new on the flag it reads
InLoop(p, flags) ==
    /\ procs[p].pc = "parse"
    /\ procs[p].pos < Len(procs[p].args)
    /\ CurrentArg(procs[p]) \in flags

Visit(P) == [P EXCEPT !.visited = Append(@, P.pos)]

MessageFlags == {F_m, F_message}
TypeFlags == {F_t, F_type}
ButtonFlags == {F_b, F_button}
ButtonNoTerminalFlags == {F_B, F_button_no_terminal}
ExitAfterActionFlags == {F_exit_after_action}
FontFlags == {F_f, F_font}
HelpFlags == {F_h, F_help}
VersionFlags == {F_v, F_version}
KnownFlags ==
    MessageFlags \cup TypeFlags \cup ButtonFlags \cup ButtonNoTerminalFlags
    \cup ExitAfterActionFlags \cup FontFlags \cup HelpFlags \cup VersionFlags

ParseMessage(p) ==
    /\ InLoop(p, MessageFlags)
    /\ Update(p, NewMessage(Visit(procs[p])))

ParseType(p) ==
    /\ InLoop(p, TypeFlags)
    /\ Update(p, NewType(Visit(procs[p])))

\* ParseButton with a fault: bound to the shell strategy
ParseButton_shell(p) ==
    /\ InLoop(p, ButtonFlags)
    /\ Update(p, NewButton(Visit(procs[p]), "exec_in_shell"))

ParseButton(p) ==
    /\ InLoop(p, ButtonFlags)
    /\ Update(p, NewButton(Visit(procs[p]), "exec_in_terminal"))

ParseButtonNoTerminal(p) ==
    /\ InLoop(p, ButtonNoTerminalFlags)
    /\ Update(p, NewButton(Visit(procs[p]), "exec_in_shell"))

ParseExitAfterAction(p) ==
    /\ InLoop(p, ExitAfterActionFlags)
    /\ Update(p, NewExitAfterAction(Visit(procs[p])))

ParseFont(p) ==
    /\ InLoop(p, FontFlags)
    /\ Update(p, NewFont(Visit(procs[p])))

ParseHelp(p) ==
    /\ InLoop(p, HelpFlags)
    /\ Update(p, NewHelp(Visit(procs[p])))

ParseVersion(p) ==
    /\ InLoop(p, VersionFlags)
    /\ Update(p, NewVersion(Visit(procs[p])))

ParseUnexpected(p) ==
    /\ procs[p].pc = "parse"
    /\ procs[p].pos < Len(procs[p].args)
    /\ CurrentArg(procs[p]) \notin KnownFlags
    /\ Update(p, NewUnexpected(Visit(procs[p])))

\* the loop ends: Ok(config)
ParseOk(p) ==
    /\ procs[p].pc = "parse"
    /\ procs[p].pos >= Len(procs[p].args)
    /\ Update(p, [procs[p] EXCEPT !.pc = "ok"])

\* main, lines 423-424
HandleError(p) ==
    /\ procs[p].pc = "error"
    /\ Update(p, [procs[p] EXCEPT !.exit_code = handle_error(procs[p].err),
                                  !.pc = "exit"])

\* main, lines 415-421: gtk::init, the widgets, show_all, gtk::main
ShowDialog(p) ==
    /\ procs[p].pc = "ok"
    /\ \E gtk_init \in {"ok", "err"} :
          Update(p, IF gtk_init = "ok"
                    THEN [procs[p] EXCEPT !.shown = TRUE, !.pc = "dialog"]
                    ELSE Panicked(procs[p]))

\* the handler of the Cancel button: gtk::main_quit
Cancel(p) ==
    /\ procs[p].pc = "dialog"
    /\ Update(p, [procs[p] EXCEPT !.pc = "exit"])

\* std::process::exit(exit_code)
Exit(p) ==
    /\ procs[p].pc = "exit"
    /\ Update(p, [procs[p] EXCEPT !.pc = "exited", !.status = "exited",
                                  !.exit_status = procs[p].exit_code])

(***************************************************************************)
(* The relaunch branch of main and the /bin/sh child it waits for.         *)
(***************************************************************************)
\* RemoveLink with a fault: a failed remove_file aborts the process
RemoveLink_fatal(p) ==
    /\ procs[p].pc = "relaunch"
    /\ \E outcome \in {"ok", "err"} :
          /\ outcome = "ok" => Exists(fs, procs[p].args[1])
          /\ procs' = [procs EXCEPT ![p] =
                IF outcome = "ok"
                THEN [@ EXCEPT !.pc = "run_script", !.removal = "ok"]
                ELSE Panicked([@ EXCEPT !.removal = "failed"])]
          /\ fs' = IF outcome = "ok"
                   THEN WithoutFile(fs, procs[p].args[1])
                   ELSE fs
    /\ UNCHANGED <<tmpdir, children>>

\* main, lines 427-430: remove_file(&args[0]); a failure is only printed
RemoveLink(p) ==
    /\ procs[p].pc = "relaunch"
    /\ \E outcome \in {"ok", "err"} :
          /\ outcome = "ok" => Exists(fs, procs[p].args[1])
          /\ procs' = [procs EXCEPT ![p].pc = "run_script",
                                    ![p].removal =
                                        IF outcome = "ok" THEN "ok" ELSE "failed"]
          /\ fs' = IF outcome = "ok"
                   THEN WithoutFile(fs, procs[p].args[1])
                   ELSE fs
    /\ UNCHANGED <<tmpdir, children>>

\* run_script up to spawn(): /bin/sh <script>
RunScript(p) ==
    /\ procs[p].pc = "run_script"
    /\ \E spawn \in {"ok", "err"} :
          Update(p, IF spawn = "ok"
                    THEN [procs[p] EXCEPT
                            !.script = Some(RunScriptPath(procs[p].args[1])),
                            !.spawned = "ok",
                            !.sh.state = "spawned",
                            !.pc = "wait"]
                    ELSE Panicked([procs[p] EXCEPT !.spawned = "failed"]))

\* /bin/sh opens the script it was given
ShOpen(p) ==
    /\ procs[p].sh.state = "spawned"
    /\ LET path == procs[p].script.val
       IN  Update(p, IF Exists(fs, path) /\ fs[path].kind = "file"
                     THEN [procs[p] EXCEPT !.sh.state = "running",
                                           !.sh.lines = fs[path].lines]
                     ELSE [procs[p] EXCEPT !.sh.state = "done"])

\* the words /bin/sh splits the unquoted text of a command line into, at
\* its blanks
Blank == " "

RECURSIVE Words(_)
Words(text) ==
    IF text = <<>> THEN {}
    ELSE IF text[1] = Blank THEN Words(Tail(text))
    ELSE LET blanks == {k \in DOMAIN text : text[k] = Blank}
             n == IF blanks = {} THEN Len(text) + 1
                  ELSE CHOOSE k \in blanks : \A j \in blanks : k <= j
         IN  {SubSeq(text, 1, n - 1)} \cup Words(SubSeq(text, n, Len(text)))

\* /bin/sh runs the next line of the script, or ends after the last; the
\* path after rm is written unquoted, so rm is given its words, removes
\* those that are there and complains about the others
ShStep(p) ==
    /\ procs[p].sh.state = "running"
    /\ LET sh == procs[p].sh
           line == sh.lines[sh.next]
       IN  IF sh.next > Len(sh.lines)
           THEN /\ procs' = [procs EXCEPT ![p].sh.state = "done"]
                /\ fs' = fs
           ELSE /\ procs' = [procs EXCEPT
                               ![p].sh.next = sh.next + 1,
                               ![p].sh.ran =
                                   IF line.op = "command"
                                   THEN Append(sh.ran, line.arg)
                                   ELSE sh.ran]
                /\ fs' = IF line.op = "rm"
                         THEN [q \in DOMAIN fs \ Words(line.arg) |-> fs[q]]
                         ELSE fs
    /\ UNCHANGED <<tmpdir, children>>

\* run_script, wait(): returns once the child has ended
WaitReturn(p) ==
    /\ procs[p].pc = "wait"
    /\ procs[p].sh.state = "done"
    /\ \E wait \in {"ok", "err"} :
          Update(p, IF wait = "ok"
                    THEN [procs[p] EXCEPT !.waited = "ok", !.pc = "exit"]
                    ELSE Panicked([procs[p] EXCEPT !.waited = "failed"]))

(***************************************************************************)
(* The dialog: the clicked handlers of create_gtk_buttons, and the         *)
(* terminal emulator running the link it was given.                        *)
(***************************************************************************)
\* the random suffixes drawn here: two of the alphanumeric strings that
\* thread_rng().sample_iter(&Alphanumeric).take(30) can give, cut short
Rnds == { <<"a","7">>, <<"Z","7">> }

\* Command::execute on button i
Execute(button, rnd, outcome, files, dir) ==
    IF button.command.exec = "exec_in_shell"
    THEN exec_in_shell(button.command, outcome, files)
    ELSE exec_in_terminal(button.command, dir, rnd, outcome, files)

\* the choices of the environment a press of button meets
Choices(button) ==
    IF button.command.exec = "exec_in_shell"
    THEN {<< <<>>, o >> : o \in ShellOutcomes}
    ELSE {<<r, o>> \in Rnds \X TerminalOutcomes :
              OutcomePossible(o, fs, LinkPath(tmpdir, r))}

\* history: every file the call wrote, and the child it spawned, is marked
\* with the call, <<process, number of the press>>; exec_in_terminal builds
\* the files it writes anew, so those are the ones without a mark
Stamp(files, id) ==
    [q \in DOMAIN files |->
        IF "by" \in DOMAIN files[q] THEN files[q]
        ELSE files[q] @@ [by |-> id]]

\* Click with a fault: every button gets the handler without main_quit
Click_stays_open(p, i) ==
    /\ procs[p].pc = "dialog"
    /\ procs[p].clicks < MaxClicks
    /\ i \in 1..Len(procs[p].config.buttons)
    /\ LET button == procs[p].config.buttons[i]
       IN  \E c \in Choices(button) :
              LET r == Execute(button, c[1], c[2], fs, tmpdir)
                  P == [procs[p] EXCEPT
                          !.clicks = @ + 1,
                          !.calls = Append(@, [button |-> i,
                                               command |-> button.command,
                                               rnd |-> c[1],
                                               outcome |-> c[2]])]
                  id == <<p, P.clicks>>
              IN  /\ fs' = Stamp(r.fs, id)
                  /\ children' =
                        IF r.child.some
                        THEN Append(children, r.child.val @@ [call |-> id])
                        ELSE children
                  /\ procs' = [procs EXCEPT ![p] =
                        IF ~r.child.some THEN Panicked(P) ELSE P]
    /\ UNCHANGED tmpdir

\* the handler connected to button i (lines 332-341)
Click(p, i) ==
    /\ procs[p].pc = "dialog"
    /\ procs[p].clicks < MaxClicks
    /\ i \in 1..Len(procs[p].config.buttons)
    /\ LET button == procs[p].config.buttons[i]
       IN  \E c \in Choices(button) :
              LET r == Execute(button, c[1], c[2], fs, tmpdir)
                  P == [procs[p] EXCEPT
                          !.clicks = @ + 1,
                          !.calls = Append(@, [button |-> i,
                                               command |-> button.command,
                                               rnd |-> c[1],
                                               outcome |-> c[2]])]
                  id == <<p, P.clicks>>
              IN  /\ fs' = Stamp(r.fs, id)
                  /\ children' =
                        IF r.child.some
                        THEN Append(children, r.child.val @@ [call |-> id])
                        ELSE children
                  /\ procs' = [procs EXCEPT ![p] =
                        IF ~r.child.some THEN Panicked(P)
                        ELSE IF P.config.exit_after_action
                        THEN [P EXCEPT !.pc = "exit"]
                        ELSE P]
    /\ UNCHANGED tmpdir

\* the terminal emulator runs `-e <link>`: exec of the link, which is this
\* program when the link is still there
TerminalStart(c) ==
    /\ children[c].kind = "terminal"
    /\ ~children[c].started
    /\ children' = [children EXCEPT ![c].started = TRUE]
    /\ procs' = IF Exists(fs, children[c].arg)
                   /\ fs[children[c].arg].kind = "symlink"
                THEN Append(procs, NewProcess(<<children[c].arg>>, c))
                ELSE procs
    /\ UNCHANGED <<fs, tmpdir>>

(***************************************************************************)
(* The inputs: argument lists, temp directories, what the temp directory   *)
(* holds when a process is started from a link.                            *)
(***************************************************************************)
App == <<"a","p","p">>
XCmd == <<"x",".","c","m","d">>
Cmd == <<"c","m","d">>
XCmdBad == <<"x",".","c","m","d",InvalidByte>>
BadCmd == <<InvalidByte,".","c","m","d">>

L == <<"L">>
K == <<"K">>
A == <<"A">>
C == <<"C">>
I == <<"I">>
M == <<"M">>
X == <<"X">>
Bad == <<"L",InvalidByte>>
DashX == <<"-","x">>
Warning == <<"W","a","r","n","i","n","g">>
ERROR == <<"E","R","R","O","R">>
Critical == <<"c","r","i","t","i","c","a","l">>

\* the tokens of the exhaustive argument lists
Tokens ==
    KnownFlags \cup
    {StrWarning, Warning, ERROR, Critical, L, A, I, Bad, DashX}

\* every sequence over S of length at most n
RECURSIVE SeqsUpTo(_, _)
SeqsUpTo(S, n) ==
    IF n = 0 THEN {<<>>}
    ELSE LET shorter == SeqsUpTo(S, n - 1)
         IN  shorter \cup {Append(t, x) : t \in shorter, x \in S}

\* a flag with its operands, complete or cut short
Groups ==
    { <<F_b, L, A>>, <<F_b, K, A, I>>, <<F_B, K, C>>, <<F_B, L, C, I>>,
      <<F_button, L, A>>, <<F_button_no_terminal, K, C>>,
      <<F_t, StrWarning>>, <<F_t, StrError>>, <<F_m, M>>, <<F_f, X>>,
      <<F_exit_after_action>>, <<F_h>>, <<F_v>>,
      <<F_t>>, <<F_b, L>>, <<A>> }

RECURSIVE Flatten(_)
Flatten(gs) == IF gs = <<>> THEN <<>> ELSE Head(gs) \o Flatten(Tail(gs))

Open == <<"O","p","e","n">>
Firefox == <<"f","i","r","e","f","o","x">>
Close == <<"C","l","o","s","e">>
PkillFirefox == <<"p","k","i","l","l"," ","f","i","r","e","f","o","x">>

\* the argument list of the end-to-end property of the specification
EndToEndArgs ==
    <<App, F_b, Open, Firefox, F_B, Close, PkillFirefox, F_exit_after_action>>

\* the argument list of tests::button_order
ButtonOrderArgs ==
    <<App, F_b, <<"1",".","1">>, <<"1",".","2">>,
           F_B, <<"2",".","1">>, <<"2",".","2">>,
           F_b, <<"3",".","1">>, <<"3",".","2">>,
           F_B, <<"4",".","1">>, <<"4",".","2">> >>

Examples ==
    { EndToEndArgs, ButtonOrderArgs,
      <<App, F_b, L, A, I, F_t, StrError>>,
      <<App, F_b, Bad, Bad, Bad>>,
      <<App, F_B, L, A, DashX>>,
      <<App, F_button, K, A, F_font>>,
      <<App, F_f, F_b, F_b, L, A, F_f, F_h, F_B, K, C>> }

\* argv when the user starts the program
ArgLists ==
    {<<App>> \o rest : rest \in SeqsUpTo(Tokens, MaxArgs)}
    \cup {<<App>> \o Flatten(gs) : gs \in SeqsUpTo(Groups, MaxGroups)}
    \cup {<<a0>> \o rest : a0 \in {XCmd, Cmd, XCmdBad, BadCmd},
                           rest \in SeqsUpTo(Tokens, 1)}
    \cup Examples

\* XDG_RUNTIME_DIR, or temp_dir() without it
TmpDirs == { <<"/","r">>, <<"/","r","/">>, <<>>, <<"/","r",Blank,"x">> }

\* what a process started from a link may find: nothing, or the link and
\* the script an earlier exec_in_terminal left
LeftBehind(args) ==
    IF IsNormalLaunch(args) THEN {EmptyFs}
    ELSE {EmptyFs,
          WithFile(WithFile(EmptyFs, args[1], LinkFile),
                   RunScriptPath(args[1]),
                   ScriptFile("0o700", RunScriptPath(args[1]), A, 3))}

(***************************************************************************)
(* Spec: one process, started by the user with any of ArgLists; the dialog *)
(* is shown and cancelled, no button is pressed.                           *)
(***************************************************************************)
Init ==
    /\ \E args \in ArgLists :
          /\ procs = <<NewProcess(args, 0)>>
          /\ fs \in LeftBehind(args)
    /\ tmpdir = <<"/","r">>
    /\ children = <<>>

Next ==
    \/ \E p \in DOMAIN procs : MainStart(p)
    \/ \E p \in DOMAIN procs : ParseMessage(p)
    \/ \E p \in DOMAIN procs : ParseType(p)
    \/ \E p \in DOMAIN procs : ParseButton(p)
    \/ \E p \in DOMAIN procs : ParseButtonNoTerminal(p)
    \/ \E p \in DOMAIN procs : ParseExitAfterAction(p)
    \/ \E p \in DOMAIN procs : ParseFont(p)
    \/ \E p \in DOMAIN procs : ParseHelp(p)
    \/ \E p \in DOMAIN procs : ParseVersion(p)
    \/ \E p \in DOMAIN procs : ParseUnexpected(p)
    \/ \E p \in DOMAIN procs : ParseOk(p)
    \/ \E p \in DOMAIN procs : HandleError(p)
    \/ \E p \in DOMAIN procs : ShowDialog(p)
    \/ \E p \in DOMAIN procs : Cancel(p)
    \/ \E p \in DOMAIN procs : RemoveLink(p)
    \/ \E p \in DOMAIN procs : RunScript(p)
    \/ \E p \in DOMAIN procs : ShOpen(p)
    \/ \E p \in DOMAIN procs : ShStep(p)
    \/ \E p \in DOMAIN procs : WaitReturn(p)
    \/ \E p \in DOMAIN procs : Exit(p)

Spec == Init /\ [][Next]_vars

(***************************************************************************)
(* SpecParse: Spec with the scheduling a started process gets: main runs   *)
(* on, without outside events, from its start to the return of             *)
(* Configuration::new.                                                     *)
(***************************************************************************)
ParseStep(p) ==
    \/ MainStart(p)
    \/ ParseMessage(p)
    \/ ParseType(p)
    \/ ParseButton(p)
    \/ ParseButtonNoTerminal(p)
    \/ ParseExitAfterAction(p)
    \/ ParseFont(p)
    \/ ParseHelp(p)
    \/ ParseVersion(p)
    \/ ParseUnexpected(p)
    \/ ParseOk(p)

SpecParse ==
    Init /\ [][Next]_vars /\ WF_vars(\E p \in DOMAIN procs : ParseStep(p))

(***************************************************************************)
(* SpecRun: the whole system on a few argument lists: buttons are pressed, *)
(* terminals run their links, the relaunched processes run their scripts.  *)
(***************************************************************************)
RunArgLists ==
    { <<App, F_b, L, A, F_B, K, C>>,
      <<App, F_b, L, A, F_exit_after_action>>,
      <<App, F_m, M, F_b, L, A, I, F_t, Warning, F_button, K, C, F_f, X>>,
      <<App, F_h>>, <<App, F_v>>, <<App, X>> }

InitRun ==
    /\ \E args \in RunArgLists : procs = <<NewProcess(args, 0)>>
    /\ fs = EmptyFs
    /\ tmpdir \in TmpDirs
    /\ children = <<>>

NextRun ==
    \/ Next
    \/ \E p \in DOMAIN procs :
          \E i \in 1..Len(procs[p].config.buttons) : Click(p, i)
    \/ \E c \in DOMAIN children : TerminalStart(c)

SpecRun == InitRun /\ [][NextRun]_vars

(***************************************************************************)
(* SpecOnce: SpecRun with at most MaxPresses presses followed per dialog,  *)
(* for the properties of a single terminal execution and its relaunch.     *)
(***************************************************************************)
NextOnce ==
    \/ Next
    \/ \E p \in DOMAIN procs :
          \E i \in 1..Len(procs[p].config.buttons) :
              procs[p].clicks < MaxPresses /\ Click(p, i)
    \/ \E c \in DOMAIN children : TerminalStart(c)

SpecOnce == InitRun /\ [][NextOnce]_vars

(***************************************************************************)
(* SpecFont: the program is run on an argument list and, when that run has *)
(* ended and the list was accepted, once more on the same list with a font *)
(* flag and an operand put in at some position.                            *)
(***************************************************************************)
\* Configuration::new has returned Ok(config) in process P
Accepted(P) ==
    /\ P.mode = "NormalLaunch"
    /\ P.pc \notin {"start", "parse", "error"}
    /\ P.err = NoError

FontArgLists ==
    {<<App>> \o Flatten(gs) : gs \in SeqsUpTo(Groups, MaxGroups - 1)}
    \cup Examples
    \cup {<<XCmd>>, <<Cmd>>}

\* the tokens put in after the font flag: a plain word, flags, a bad string
FontOperands == {X, F_h, F_b, Bad}

\* args with flag and operand put in at position k, counted as the cursor
\* counts: the new tokens are args[k] and args[k + 1]
InsertAt(args, k, flag, operand) ==
    SubSeq(args, 1, k) \o <<flag, operand>> \o SubSeq(args, k + 1, Len(args))

InitFont ==
    /\ \E args \in FontArgLists :
          /\ procs = <<NewProcess(args, 0)>>
          /\ fs \in LeftBehind(args)
    /\ tmpdir = <<"/","r">>
    /\ children = <<>>

\* the user starts the program once more
RunAgain ==
    /\ Len(procs) = 1
    /\ procs[1].status # "running"
    /\ Accepted(procs[1])
    /\ \E k \in 1..Len(procs[1].args), flag \in FontFlags,
          operand \in FontOperands :
          procs' = Append(procs,
                          NewProcess(InsertAt(procs[1].args, k, flag, operand),
                                     0))
    /\ UNCHANGED <<fs, tmpdir, children>>

NextFont ==
    \/ Next
    \/ RunAgain

SpecFont == InitFont /\ [][NextFont]_vars

(***************************************************************************)
(* Vocabulary of the properties.                                           *)
(***************************************************************************)
AnyButtonFlags == ButtonFlags \cup ButtonNoTerminalFlags

\* the token of P's argument list at position q, counted from 0
ArgAt(P, q) == P.args[q + 1]

\* the k-th iteration of the parse loop of P read a button flag and found
\* both its label and its action
ButtonMade(P, k) ==
    /\ ArgAt(P, P.visited[k]) \in AnyButtonFlags
    /\ P.visited[k] + 2 < Len(P.args)

\* how many of the first k iterations made a button
ButtonsMade(P, k) == Cardinality({j \in 1..k : ButtonMade(P, j)})

\* the cursor at the start of the iteration after the k-th; the cursor now
\* when the k-th is the latest
CursorAfter(P, k) ==
    IF k < Len(P.visited) THEN P.visited[k + 1] ELSE P.pos

(***************************************************************************)
(* C1.  For every accepted argument list, buttons has one entry per -b /   *)
(* --button / -B / --button-no-terminal read at a flag position, and       *)
(* buttons[i] carries the label given to the i-th of them, from left to    *)
(* right, however -b, -B and other flags are interleaved.                  *)
(***************************************************************************)
C1_ButtonOrder ==
    \A p \in DOMAIN procs :
        LET P == procs[p]
        IN  Accepted(P) =>
              /\ Len(P.config.buttons) = ButtonsMade(P, Len(P.visited))
              /\ \A k \in 1..Len(P.visited) :
                    ButtonMade(P, k) =>
                        P.config.buttons[ButtonsMade(P, k)].label
                            = ToStringLossy(ArgAt(P, P.visited[k] + 1))

\* an accepted list with a -b button, then another flag, then a -B button
\* with a different label
C1_Witness ==
    \E p \in DOMAIN procs :
        LET P == procs[p]
        IN  /\ Accepted(P)
            /\ \E i, j, k \in 1..Len(P.visited) :
                  /\ i < j /\ j < k
                  /\ ArgAt(P, P.visited[i]) \in ButtonFlags
                  /\ ArgAt(P, P.visited[j]) \notin AnyButtonFlags
                  /\ ArgAt(P, P.visited[k]) \in ButtonNoTerminalFlags
                  /\ ArgAt(P, P.visited[i] + 1) # ArgAt(P, P.visited[k] + 1)

(***************************************************************************)
(* C2.  A button made from -b / --button is bound to exec_in_terminal and  *)
(* one made from -B / --button-no-terminal to exec_in_shell; its command   *)
(* text is the second operand, byte for byte.                              *)
(***************************************************************************)
\* the strategy the flag at position q stands for
StrategyOf(flag) ==
    IF flag \in ButtonFlags THEN "exec_in_terminal" ELSE "exec_in_shell"

\* button k-th made of P is bound to the strategy of its flag and carries
\* the second operand as its command
C2_Bound(P, k) ==
    LET b == P.config.buttons[ButtonsMade(P, k)]
        q == P.visited[k]
    IN  /\ b.command.exec = StrategyOf(ArgAt(P, q))
        /\ b.command.command = ArgAt(P, q + 2)

\* what the end-to-end argument list must give
EndToEndConfiguration ==
    [ buttons |->
        << [label |-> Open, icon |-> None,
            command |-> [command |-> Firefox, exec |-> "exec_in_terminal"]],
           [label |-> Close, icon |-> None,
            command |-> [command |-> PkillFirefox, exec |-> "exec_in_shell"]] >>,
      message_type |-> "ERROR",
      exit_after_action |-> TRUE,
      message |-> DefaultMessage ]

\* C2 as stated: the label is the first operand itself.  It fails for a
\* label operand that is not valid UTF-8.
C2_AsStated ==
    \A p \in DOMAIN procs :
        LET P == procs[p]
        IN  /\ \A k \in 1..Len(P.visited) :
                  ButtonMade(P, k) =>
                      /\ C2_Bound(P, k)
                      /\ P.config.buttons[ButtonsMade(P, k)].label
                            = ArgAt(P, P.visited[k] + 1)
            /\ (Accepted(P) /\ P.args = EndToEndArgs) =>
                  P.config = EndToEndConfiguration

\* C2 as amended: the label is the first operand as to_string_lossy gives
\* it, which is the operand itself when that is valid UTF-8 and has U+FFFD
\* for every invalid byte otherwise.
C2_Strategy ==
    \A p \in DOMAIN procs :
        LET P == procs[p]
        IN  /\ \A k \in 1..Len(P.visited) :
                  ButtonMade(P, k) =>
                      LET b == P.config.buttons[ButtonsMade(P, k)]
                          operand == ArgAt(P, P.visited[k] + 1)
                      IN  /\ C2_Bound(P, k)
                          /\ Len(b.label) = Len(operand)
                          /\ \A n \in 1..Len(operand) :
                                b.label[n] = IF operand[n] = InvalidByte
                                             THEN ReplacementChar
                                             ELSE operand[n]
            /\ (Accepted(P) /\ P.args = EndToEndArgs) =>
                  P.config = EndToEndConfiguration

\* the end-to-end list has been accepted with its two buttons
C2_Witness ==
    \E p \in DOMAIN procs :
        /\ Accepted(procs[p])
        /\ procs[p].args = EndToEndArgs
        /\ Len(procs[p].config.buttons) = 2

(***************************************************************************)
(* C3.  A button has an icon exactly when a token follows ACTION and does  *)
(* not begin with '-'.  A present icon is that token and the cursor moves  *)
(* past it; otherwise the cursor stops on the token after ACTION, which is *)
(* read next as a flag.                                                    *)
(***************************************************************************)
C3_IconLookAhead ==
    \A p \in DOMAIN procs :
        LET P == procs[p]
        IN  \A k \in 1..Len(P.visited) :
              ButtonMade(P, k) =>
                  LET b == P.config.buttons[ButtonsMade(P, k)]
                      q == P.visited[k]
                      follows == q + 3 < Len(P.args)
                      dash == follows /\ Len(ArgAt(P, q + 3)) > 0
                                      /\ ArgAt(P, q + 3)[1] = "-"
                  IN  /\ b.icon.some <=> (follows /\ ~dash)
                      /\ b.icon.some => b.icon.val = ArgAt(P, q + 3)
                      /\ CursorAfter(P, k) = IF b.icon.some THEN q + 4 ELSE q + 3

\* a button with an icon, then a button without one whose ACTION is followed
\* by -t, which has been read as the type flag
C3_Witness ==
    \E p \in DOMAIN procs :
        LET P == procs[p]
        IN  \E i, k \in 1..Len(P.visited) :
              /\ ButtonMade(P, i) /\ ButtonMade(P, k)
              /\ P.config.buttons[ButtonsMade(P, i)].icon.some
              /\ ~P.config.buttons[ButtonsMade(P, k)].icon.some
              /\ k < Len(P.visited)
              /\ P.visited[k + 1] = P.visited[k] + 3
              /\ ArgAt(P, P.visited[k + 1]) \in TypeFlags
              /\ P.config.message_type = "WARNING"

(***************************************************************************)
(* C4.  A flag whose required operand lies past the end of the argument    *)
(* list gives MissingArgument: -m / --message or -t / --type as the last   *)
(* token, and a button flag followed by no token or by exactly one.        *)
(***************************************************************************)
C4_MissingArgument ==
    \A p \in DOMAIN procs :
        LET P == procs[p]
        IN  \A k \in 1..Len(P.visited) :
              LET q == P.visited[k]
                  flag == ArgAt(P, q)
                  operands == Len(P.args) - (q + 1)
              IN  (\/ flag \in MessageFlags \cup TypeFlags /\ operands = 0
                   \/ flag \in AnyButtonFlags /\ operands \in {0, 1})
                  => /\ P.err.error_type = "MissingArgument"
                     /\ P.pc \in {"error", "exit", "exited"}
                     /\ ~P.shown

\* a button flag followed by its label alone has given MissingArgument
C4_Witness ==
    \E p \in DOMAIN procs :
        LET P == procs[p]
            q == P.visited[Len(P.visited)]
        IN  /\ P.visited # <<>>
            /\ ArgAt(P, q) \in AnyButtonFlags
            /\ Len(P.args) - (q + 1) = 1
            /\ P.err = missing_argument(MsgMissingAction)

(***************************************************************************)
(* C5.  A token read at a flag position that is no recognized flag gives   *)
(* WrongArgument with a message naming the token; parsing stops on it: no  *)
(* later token is read and no Configuration is returned.                   *)
(***************************************************************************)
C5_UnexpectedArgument ==
    \A p \in DOMAIN procs :
        LET P == procs[p]
        IN  \A k \in 1..Len(P.visited) :
              ArgAt(P, P.visited[k]) \notin KnownFlags =>
                  /\ P.err.error_type = "WrongArgument"
                  /\ P.err.message[1] = MsgUnexpected
                  /\ P.err.message[2] = ToStringLossy(ArgAt(P, P.visited[k]))
                  /\ k = Len(P.visited)
                  /\ P.pos = P.visited[k]
                  /\ P.pc \in {"error", "exit", "exited"}
                  /\ ~P.shown

\* an unexpected token with tokens behind it has stopped the parse
C5_Witness ==
    \E p \in DOMAIN procs :
        LET P == procs[p]
        IN  /\ P.visited # <<>>
            /\ ArgAt(P, P.visited[Len(P.visited)]) \notin KnownFlags
            /\ P.visited[Len(P.visited)] + 1 < Len(P.args)
            /\ Len(P.visited) > 1
            /\ P.err.error_type = "WrongArgument"

(***************************************************************************)
(* C6.  -h / --help gives HelpRequested at once, whatever follows it.      *)
(***************************************************************************)
\* Configuration::new has returned in process P
Returned(P) ==
    /\ P.mode = "NormalLaunch"
    /\ P.pc \notin {"start", "parse"}

\* C6 as stated: -h anywhere in the argument list gives HelpRequested.  It
\* fails when an earlier token stops the parse or takes -h as its operand.
C6_AsStated ==
    \A p \in DOMAIN procs :
        LET P == procs[p]
        IN  (Returned(P) /\ \E q \in 1..(Len(P.args) - 1) :
                                ArgAt(P, q) \in HelpFlags)
            => P.err.error_type = "HelpRequested"

\* C6 as amended: -h / --help read at a flag position (no earlier token has
\* stopped the parse and none has taken it as an operand) gives
\* HelpRequested at once: no later token is read, even one that would give
\* an error.
C6_HelpShortCircuit ==
    \A p \in DOMAIN procs :
        LET P == procs[p]
        IN  \A k \in 1..Len(P.visited) :
              ArgAt(P, P.visited[k]) \in HelpFlags =>
                  /\ P.err.error_type = "HelpRequested"
                  /\ k = Len(P.visited)
                  /\ P.pos = P.visited[k]
                  /\ P.pc \in {"error", "exit", "exited"}

\* help was requested in front of a token that is no flag
C6_Witness ==
    \E p \in DOMAIN procs :
        LET P == procs[p]
        IN  /\ P.err.error_type = "HelpRequested"
            /\ P.pos + 1 < Len(P.args)
            /\ ArgAt(P, P.pos + 1) \notin KnownFlags

(***************************************************************************)
(* C7.  The operand of -t / --type is accepted exactly when it is          *)
(* "warning" or "error" in any mix of upper and lower case; every other    *)
(* operand gives WrongArgument.                                            *)
(***************************************************************************)
\* the two spellings of each letter of "warning" and "error"
CaseOf(c) ==
    CASE c = "w" -> {"w", "W"} [] c = "a" -> {"a", "A"}
      [] c = "r" -> {"r", "R"} [] c = "n" -> {"n", "N"}
      [] c = "i" -> {"i", "I"} [] c = "g" -> {"g", "G"}
      [] c = "e" -> {"e", "E"} [] c = "o" -> {"o", "O"}

\* s is word in some mix of cases
SpellingOf(s, word) ==
    /\ Len(s) = Len(word)
    /\ \A n \in 1..Len(word) : s[n] \in CaseOf(word[n])

C7_TypeValidation ==
    \A p \in DOMAIN procs :
        LET P == procs[p]
        IN  \A k \in 1..Len(P.visited) :
              LET q == P.visited[k]
                  operand == ArgAt(P, q + 1)
                  \* this -t did not end the parse
                  accepted == k < Len(P.visited) \/ P.err = NoError
              IN  (ArgAt(P, q) \in TypeFlags /\ q + 1 < Len(P.args)) =>
                    /\ accepted <=> (\/ SpellingOf(operand, StrWarning)
                                     \/ SpellingOf(operand, StrError))
                    /\ ~accepted =>
                          /\ P.err.error_type = "WrongArgument"
                          /\ P.err.message[1] = MsgWrongType

\* a -t Warning and a -t ERROR, both accepted
C7_Witness ==
    \E p \in DOMAIN procs :
        LET P == procs[p]
        IN  /\ Accepted(P)
            /\ \E k \in 1..Len(P.visited) :
                  /\ ArgAt(P, P.visited[k]) \in TypeFlags
                  /\ ArgAt(P, P.visited[k] + 1) \in {Warning, ERROR}

(***************************************************************************)
(* C8.  The exit code is 0 after HelpRequested or VersionInfoRequested and *)
(* after a closed dialog or a completed relaunch, and 1 after              *)
(* MissingArgument or WrongArgument; a parse failure never shows the       *)
(* dialog.                                                                 *)
(***************************************************************************)
C8_ExitCodes ==
    \A p \in DOMAIN procs :
        LET P == procs[p]
        IN  /\ P.status = "exited" =>
                  P.exit_status =
                      IF P.err.error_type \in {"MissingArgument", "WrongArgument"}
                      THEN 1 ELSE 0
            /\ P.err # NoError => ~P.shown /\ P.pc \notin {"ok", "dialog"}

\* a process has exited with 1 after a parse error
C8_Witness ==
    \E p \in DOMAIN procs :
        /\ procs[p].status = "exited"
        /\ procs[p].exit_status = 1
        /\ procs[p].err.error_type = "WrongArgument"

(***************************************************************************)
(* C9.  The mode is chosen from argv[0] alone: NormalLaunch when it does   *)
(* not end in ".cmd", ScriptRelaunch when it does.  A NormalLaunch never   *)
(* deletes argv[0] and never runs a script; a ScriptRelaunch deletes the   *)
(* link and runs the paired script, never parses and never shows the       *)
(* dialog.  The mode never changes.                                        *)
(***************************************************************************)
\* argv[0] ends in the bytes of ".cmd"
EndsInDotCmd(argv0) ==
    /\ Len(argv0) >= 4
    /\ argv0[Len(argv0) - 3] = "."
    /\ argv0[Len(argv0) - 2] = "c"
    /\ argv0[Len(argv0) - 1] = "m"
    /\ argv0[Len(argv0)] = "d"

C9_ModeOf(P) ==
    /\ P.mode # "not_selected" =>
          P.mode = IF EndsInDotCmd(P.args[1])
                   THEN "ScriptRelaunch" ELSE "NormalLaunch"
    /\ P.mode = "not_selected" => P.pc = "start"
    /\ P.mode # "ScriptRelaunch" =>
          /\ P.removal = "none"
          /\ ~P.script.some
          /\ P.sh = NoShell
          /\ P.pc \notin {"relaunch", "run_script", "wait"}
    /\ P.mode # "NormalLaunch" =>
          /\ P.visited = <<>>
          /\ P.config = InitialConfiguration
          /\ P.err = NoError
          /\ ~P.shown
          /\ P.pc \notin {"parse", "ok", "error", "dialog"}
    /\ (P.mode = "ScriptRelaunch" /\ P.pc \in {"wait", "exit", "exited"}) =>
          /\ P.removal \in {"ok", "failed"}
          /\ P.script.some
          \* the paired script: argv[0] with "sh" for its "cmd"
          /\ LET link == P.args[1]
                 script == P.script.val
             IN  /\ Len(script) = Len(link) - 1
                 /\ \A j \in 1..(Len(link) - 3) : script[j] = link[j]
                 /\ script[Len(script) - 1] = "s"
                 /\ script[Len(script)] = "h"

C9_ModeSelection ==
    /\ [](\A p \in DOMAIN procs : C9_ModeOf(procs[p]))
    /\ [][\A p \in DOMAIN procs :
             /\ procs'[p].args = procs[p].args
             /\ procs[p].mode # "not_selected" =>
                   procs'[p].mode = procs[p].mode]_vars

\* a relaunch has deleted its link, run its script and exited
C9_Witness ==
    \E p \in DOMAIN procs :
        /\ procs[p].mode = "ScriptRelaunch"
        /\ procs[p].status = "exited"
        /\ procs[p].removal = "ok"
        /\ procs[p].sh.ran # <<>>

(***************************************************************************)
(* C10.  The script path and the link path exec_in_terminal builds differ  *)
(* only in their endings "sh" and "cmd", and the path run_script derives   *)
(* from the link path is, byte for byte, the script path exec_in_terminal  *)
(* wrote.                                                                  *)
(***************************************************************************)
C10_FilenameCoupling ==
    /\ \A c \in DOMAIN children :
          children[c].kind = "terminal" =>
              LET script == children[c].script
                  link == children[c].arg
                  n == Len(script)
              IN  /\ Len(link) = n + 1
                  /\ n >= 3 + 2 + Len(PROGRAM_NAME)
                  /\ \A j \in 1..(n - 2) : script[j] = link[j]
                  /\ script[n - 2] = "."
                  /\ <<script[n - 1], script[n]>> = <<"s", "h">>
                  /\ <<link[n - 1], link[n], link[n + 1]>> = <<"c", "m", "d">>
                  /\ \E r \in Rnds :
                        SubSeq(script, n - 3 - Len(r), n - 2)
                            = <<"_">> \o r \o <<".">>
    /\ \A p \in DOMAIN procs :
          (procs[p].origin # 0 /\ procs[p].script.some) =>
              /\ procs[p].args[1] = children[procs[p].origin].arg
              /\ procs[p].script.val = children[procs[p].origin].script

\* a relaunched process has handed its script path to /bin/sh, and the
\* script has run
C10_Witness ==
    \E p \in DOMAIN procs :
        /\ procs[p].origin # 0
        /\ procs[p].script.some
        /\ procs[p].sh.ran # <<>>

(***************************************************************************)
(* Vocabulary of the claims about presses: the call a step made.           *)
(***************************************************************************)
\* process p made a Command::execute call in this step
Called(p) ==
    /\ p \in DOMAIN procs
    /\ Len(procs'[p].calls) = Len(procs[p].calls) + 1

\* the call process p made in this step
TheCall(p) == procs'[p].calls[Len(procs'[p].calls)]

\* the call went through exec_in_terminal
IsTerminalCall(call) == call.command.exec = "exec_in_terminal"

\* the paths in files that are script files, and those that are links
ScriptsIn(files) == {q \in DOMAIN files : files[q].kind = "file"}
LinksIn(files) == {q \in DOMAIN files : files[q].kind = "symlink"}

(***************************************************************************)
(* C11.  Every call of exec_in_terminal, whatever its outcome, creates     *)
(* exactly one script file and exactly one symbolic link, both with the    *)
(* suffix the call drew; after the call the script is there with its link  *)
(* and the link with its script.                                           *)
(***************************************************************************)
C11_PairedArtifacts ==
    [][\A p \in DOMAIN procs :
          (Called(p) /\ IsTerminalCall(TheCall(p))) =>
              LET script_path == ScriptPath(tmpdir, TheCall(p).rnd)
                  link_path == LinkPath(tmpdir, TheCall(p).rnd)
              IN  /\ ScriptsIn(fs') \ ScriptsIn(fs) = {script_path}
                  /\ LinksIn(fs') \ LinksIn(fs) = {link_path}]_vars

(***************************************************************************)
(* Vocabulary of the claims about concurrent executions.                   *)
(***************************************************************************)
\* path is the same in files and in after: there with the same content,
\* or in neither
Untouched(path, files, after) ==
    /\ Exists(files, path) <=> Exists(after, path)
    /\ Exists(files, path) => after[path] = files[path]

\* the execution that spawned terminal c still waits for its relaunch to
\* try the deletion of its link
LinkPending(c) ==
    /\ children[c].kind = "terminal"
    /\ \A p \in DOMAIN procs :
          procs[p].origin = c => procs[p].removal = "none"

\* process p deletes its args[0] in this step
Deletes(p) ==
    /\ procs[p].removal = "none"
    /\ procs'[p].removal = "ok"

\* the terminal calls made so far, by any process and with any outcome,
\* that drew the suffix rnd
CallsWith(rnd) ==
    {<<p, k>> \in (DOMAIN procs) \X (1..MaxClicks) :
        /\ k <= Len(procs[p].calls)
        /\ IsTerminalCall(procs[p].calls[k])
        /\ procs[p].calls[k].rnd = rnd}

\* the suffix the execution that spawned terminal c drew
RndOf(c) == CHOOSE r \in Rnds : LinkPath(tmpdir, r) = children[c].arg

\* the relaunched processes, and for each its originating execution's
\* command text
Relaunched == {p \in DOMAIN procs : procs[p].origin # 0}
OwnCommand(p) == children[procs[p].origin].command

\* no step deletes the link of an execution other than the step of that
\* execution's own relaunch
OwnLinkOnly ==
    \A c \in DOMAIN children :
        (LinkPending(c) /\ Exists(fs, children[c].arg)
                        /\ ~Exists(fs', children[c].arg)) =>
            \E p \in DOMAIN procs : procs[p].origin = c /\ Deletes(p)

(***************************************************************************)
(* C12 as stated.  Concurrent terminal executions never collide: no call   *)
(* of exec_in_terminal overwrites or truncates a script that is already    *)
(* there, no relaunch deletes the link of another execution, and a         *)
(* relaunch whose /bin/sh has ended has run exactly the command its        *)
(* originating execution wrote.                                            *)
(***************************************************************************)
C12_AsStated ==
    [][/\ \A p \in DOMAIN procs :
             (/\ Called(p)
              /\ IsTerminalCall(TheCall(p))
              /\ TheCall(p).outcome # "create") =>
                 ~Exists(fs, ScriptPath(tmpdir, TheCall(p).rnd))
       /\ OwnLinkOnly
       /\ \A p \in Relaunched :
             procs'[p].sh.state = "done" =>
                 procs'[p].sh.ran = <<OwnCommand(p)>>]_vars

(***************************************************************************)
(* C12.  Terminal executions that drew different suffixes never collide:   *)
(* a call of exec_in_terminal leaves the script and the link of every      *)
(* other suffix as they were, no relaunch deletes the link of another      *)
(* execution, and a relaunch whose suffix no other call drew runs only the *)
(* command its originating execution wrote, and has run exactly that       *)
(* command once its /bin/sh has ended.                                     *)
(***************************************************************************)
C12_DistinctSuffixes ==
    [][/\ \A p \in DOMAIN procs :
             (Called(p) /\ IsTerminalCall(TheCall(p))) =>
                 \A r \in Rnds \ {TheCall(p).rnd} :
                     /\ Untouched(ScriptPath(tmpdir, r), fs, fs')
                     /\ Untouched(LinkPath(tmpdir, r), fs, fs')
       /\ OwnLinkOnly
       /\ \A p \in Relaunched :
             Cardinality(CallsWith(RndOf(procs[p].origin))') = 1 =>
                 /\ \A k \in DOMAIN procs'[p].sh.ran :
                       procs'[p].sh.ran[k] = OwnCommand(p)
                 /\ procs'[p].sh.state = "done" =>
                       procs'[p].sh.ran = <<OwnCommand(p)>>]_vars

\* two executions with different suffixes and different commands, each
\* relaunch has run the command of its own execution
C12_Witness ==
    \E p, q \in Relaunched :
        /\ RndOf(procs[p].origin) # RndOf(procs[q].origin)
        /\ OwnCommand(p) # OwnCommand(q)
        /\ procs[p].sh.state = "done" /\ procs[p].sh.ran = <<OwnCommand(p)>>
        /\ procs[q].sh.state = "done" /\ procs[q].sh.ran = <<OwnCommand(q)>>

(***************************************************************************)
(* C13.  In ScriptRelaunch the deletion of the link at argv[0] is tried    *)
(* first, then /bin/sh <script-path> is spawned, and the process does not  *)
(* exit before that child has ended: it exits only after wait() returned   *)
(* Ok.  A failed spawn or a failed wait aborts the process, which then     *)
(* never exits normally.                                                   *)
(***************************************************************************)
C13_OrderOf(P) ==
    \* the deletion first, then the spawn
    /\ P.spawned # "none" => P.removal # "none"
    \* /bin/sh is given the script path
    /\ P.spawned = "ok" <=> P.sh.state # "none"
    /\ P.spawned = "ok" => P.script = Some(RunScriptPath(P.args[1]))
    \* wait() returns when the child has ended, and not before the spawn
    /\ P.waited # "none" => (P.spawned = "ok" /\ P.sh.state = "done")
    \* the exit comes after the wait
    /\ P.pc \in {"exit", "exited"} => P.waited = "ok"
    \* a failure aborts
    /\ (P.spawned = "failed" \/ P.waited = "failed") =>
          (P.status = "panicked" /\ P.pc = "panicked")

C13_RelaunchOrder ==
    \A p \in DOMAIN procs :
        procs[p].mode = "ScriptRelaunch" => C13_OrderOf(procs[p])

\* a relaunch has tried the deletion, spawned /bin/sh, waited for it to
\* end and exited
C13_Witness ==
    \E p \in Relaunched :
        /\ procs[p].removal # "none"
        /\ procs[p].spawned = "ok"
        /\ procs[p].sh.ran # <<>>
        /\ procs[p].waited = "ok"
        /\ procs[p].status = "exited"

(***************************************************************************)
(* Vocabulary of the claims about the artifacts of one execution.          *)
(***************************************************************************)
\* the call that spawned the terminal relaunched process p came from
OwnCall(p) == children[procs[p].origin].call

\* the paths in files that the call id wrote last, of one kind
ArtifactsOf(id, kind, files) ==
    {q \in DOMAIN files :
        /\ "by" \in DOMAIN files[q]
        /\ files[q].by = id
        /\ files[q].kind = kind}

\* the lines of its script that the /bin/sh of P has run
LinesRun(P) == SubSeq(P.sh.lines, 1, P.sh.next - 1)

(***************************************************************************)
(* C14.  Within the script, rm <own path> runs before the command text     *)
(* starts; and once a ScriptRelaunch has completed nothing of its terminal *)
(* execution is left on disk but possibly the link when its deletion       *)
(* failed: the script is gone and, if the deletion succeeded, the link too.*)
(***************************************************************************)
C14_SelfRemoval ==
    \A p \in Relaunched :
        LET P == procs[p]
        IN  /\ \A k \in DOMAIN LinesRun(P) :
                  LinesRun(P)[k].op = "command" =>
                      \E j \in 1..(k - 1) :
                          LinesRun(P)[j] = [op |-> "rm", arg |-> P.script.val]
            /\ P.status = "exited" =>
                  /\ ArtifactsOf(OwnCall(p), "file", fs) = {}
                  /\ P.removal = "ok" =>
                        ArtifactsOf(OwnCall(p), "symlink", fs) = {}

(***************************************************************************)
(* C15.  In ScriptRelaunch a failed deletion of the link at argv[0] is not *)
(* fatal: the process goes on to run_script, hands /bin/sh the paired      *)
(* script and waits for it as it does after a deletion that succeeded, and *)
(* only a failed spawn or a failed wait aborts it.                         *)
(***************************************************************************)
C15_DeletionNotFatal ==
    \A p \in DOMAIN procs :
        LET P == procs[p]
        IN  (P.mode = "ScriptRelaunch" /\ P.removal = "failed") =>
                /\ P.pc \in {"run_script", "wait", "exit", "exited",
                             "panicked"}
                /\ P.status = "panicked" =>
                      (P.spawned = "failed" \/ P.waited = "failed")
                /\ P.spawned = "ok" =>
                      P.script = Some(RunScriptPath(P.args[1]))
                /\ P.pc \in {"exit", "exited"} =>
                      (P.waited = "ok" /\ P.sh.state = "done")

\* the deletion failed, and the script was run to its end and waited for
C15_Witness ==
    \E p \in Relaunched :
        /\ procs[p].removal = "failed"
        /\ procs[p].status = "exited"
        /\ procs[p].sh.ran = <<OwnCommand(p)>>

(***************************************************************************)
(* Vocabulary of the claims about the dialog.                              *)
(***************************************************************************)
\* the strategy a child was spawned by
KindOf(exec) == IF exec = "exec_in_shell" THEN "shell" ELSE "terminal"

\* the step adds one child to children: the one the call of p spawned for
\* its own button's command, which nobody has waited for
SpawnsOwnChild(p) ==
    /\ Len(children') = Len(children) + 1
    /\ SubSeq(children', 1, Len(children)) = children
    /\ LET child == children'[Len(children')]
           button == procs[p].config.buttons[TheCall(p).button]
       IN  /\ child.call = <<p, Len(procs'[p].calls)>>
           /\ child.command = button.command.command
           /\ child.kind = KindOf(button.command.exec)
           /\ ~child.started

\* the step is a press handled by p as the claim says: the command is
\* executed, then the loop is left if exit_after_action is set, and goes on
\* if not
HandledAsStated(p) ==
    /\ SpawnsOwnChild(p)
    /\ procs'[p].status = "running"
    /\ procs'[p].pc =
          IF procs[p].config.exit_after_action THEN "exit" ELSE "dialog"

\* the step is a press of Cancel by p, which executes nothing
CancelQuits(p) ==
    (/\ procs[p].pc = "dialog"
     /\ procs'[p].pc = "exit"
     /\ ~Called(p)) => (children' = children /\ fs' = fs)

\* with exit_after_action a dialog run makes at most one call, and a dialog
\* process waits for no child
DialogRuns ==
    \A p \in DOMAIN procs :
        procs[p].mode = "NormalLaunch" =>
            /\ procs[p].config.exit_after_action =>
                  Len(procs[p].calls) <= 1
            /\ procs[p].waited = "none"
            /\ procs[p].sh.state = "none"

(***************************************************************************)
(* C16 as stated.  With exit_after_action a press executes its button's    *)
(* command and then quits the loop, so a dialog run executes at most one   *)
(* command; without it the dialog stays open after a press, and every      *)
(* press executes its own button's command and spawns an independent       *)
(* child that is not waited for.  Cancel quits without executing.          *)
(***************************************************************************)
C16_AsStated ==
    /\ []DialogRuns
    /\ [][\A p \in DOMAIN procs :
             /\ Called(p) => HandledAsStated(p)
             /\ CancelQuits(p)]_vars

(***************************************************************************)
(* C16.  A press calls Command::execute on its own button's command.  When *)
(* the strategy returns Ok the press is handled as stated: one independent *)
(* child is spawned and not waited for, and the loop is left if            *)
(* exit_after_action is set and goes on if not.  When the strategy returns *)
(* Err the process is aborted at once, with or without exit_after_action,  *)
(* and no child was spawned.  With exit_after_action a dialog run makes at *)
(* most one call.  Cancel quits without executing.                         *)
(***************************************************************************)
C16_ButtonActivation ==
    /\ []DialogRuns
    /\ [][\A p \in DOMAIN procs :
             /\ Called(p) =>
                   /\ TheCall(p).command =
                         procs[p].config.buttons[TheCall(p).button].command
                   /\ IF TheCall(p).outcome = "ok"
                      THEN HandledAsStated(p)
                      ELSE /\ children' = children
                           /\ procs'[p].status = "panicked"
             /\ CancelQuits(p)]_vars

\* a dialog without exit_after_action has handled two presses of different
\* buttons, the second while the child of the first had not ended
C16_Witness ==
    \E p \in DOMAIN procs :
        /\ ~procs[p].config.exit_after_action
        /\ procs[p].pc = "dialog"
        /\ Len(procs[p].calls) = MaxClicks
        /\ procs[p].calls[1].button # procs[p].calls[Len(procs[p].calls)].button
        /\ \E c, d \in DOMAIN children :
              /\ c # d
              /\ children[c].call[1] = p /\ children[d].call[1] = p
              /\ ~children[c].started

(***************************************************************************)
(* Vocabulary of the claims about the script a terminal is given.          *)
(***************************************************************************)
\* file is a script with mode 0700 and the three lines for path and command
CompleteScript(file, path, command) ==
    /\ file.kind = "file"
    /\ file.mode = "0o700"
    /\ file.lines = ScriptLines(path, command)

\* the step is a call of exec_in_terminal by p that spawns the terminal
\* only after all its earlier steps succeeded, with the script and the link
\* in place
SpawnsWhenReady(p) ==
    LET call == TheCall(p)
        script_path == ScriptPath(tmpdir, call.rnd)
        link_path == LinkPath(tmpdir, call.rnd)
    IN  /\ call.outcome # "ok" => children' = children
        /\ children' # children =>
              /\ call.outcome = "ok"
              /\ children'[Len(children')].arg = link_path
              /\ Exists(fs', script_path)
              /\ CompleteScript(fs'[script_path], script_path,
                                call.command.command)
              /\ Exists(fs', link_path)
              /\ fs'[link_path].kind = "symlink"
              /\ fs'[link_path].target = "current_exe"

\* the /bin/sh of P has opened the script and found all three lines
FoundComplete(P) ==
    /\ P.sh.state \in {"running", "done"}
    /\ Len(P.sh.lines) = Len(ScriptLines(P.script.val, <<>>))
    /\ P.sh.lines = ScriptLines(P.script.val, P.sh.lines[Len(P.sh.lines)].arg)

(***************************************************************************)
(* C18 as stated.  When exec_in_terminal spawns the terminal the script is *)
(* there with mode 0700 and its three lines and the link is there; the     *)
(* terminal is not spawned when an earlier step failed; so the /bin/sh of  *)
(* a relaunched process never finds the script missing or partly written.  *)
(***************************************************************************)
C18_AsStated ==
    /\ [](\A p \in Relaunched :
             procs[p].sh.state \in {"running", "done"} =>
                 FoundComplete(procs[p]))
    /\ [][\A p \in DOMAIN procs :
             (Called(p) /\ IsTerminalCall(TheCall(p))) =>
                 SpawnsWhenReady(p)]_vars

(***************************************************************************)
(* C18.  When exec_in_terminal spawns the terminal the script is there     *)
(* with mode 0700 and its three lines and the link is there; the terminal  *)
(* is not spawned when an earlier step failed; and the /bin/sh of a        *)
(* relaunched process whose suffix no other call drew finds the script     *)
(* with the three lines its own execution wrote.                           *)
(***************************************************************************)
C18_ScriptReady ==
    /\ [](\A p \in Relaunched :
             (/\ procs[p].sh.state \in {"running", "done"}
              /\ Cardinality(CallsWith(RndOf(procs[p].origin))) = 1) =>
                 /\ FoundComplete(procs[p])
                 /\ procs[p].sh.lines =
                       ScriptLines(procs[p].script.val, OwnCommand(p)))
    /\ [][\A p \in DOMAIN procs :
             (Called(p) /\ IsTerminalCall(TheCall(p))) =>
                 SpawnsWhenReady(p)]_vars

\* a terminal was spawned and its relaunch has opened the complete script
C18_Witness ==
    \E p \in Relaunched :
        /\ Cardinality(CallsWith(RndOf(procs[p].origin))) = 1
        /\ procs[p].sh.state = "running"
        /\ FoundComplete(procs[p])
        /\ children[procs[p].origin].started

(***************************************************************************)
(* Vocabulary of the claims about the font flag.                           *)
(***************************************************************************)
\* the positions at which the parse of P read, or at its end would have
\* read, a flag
FlagPositions(P) ==
    {P.visited[j] : j \in DOMAIN P.visited}
    \cup (IF P.pos = Len(P.args) THEN {P.pos} ELSE {})

\* the cursor positions of a parse that reads two more tokens at k and is
\* otherwise the parse with the positions visits
ShiftedVisits(visits, k) ==
    LET before == SelectSeq(visits, LAMBDA q : q < k)
        after == SelectSeq(visits, LAMBDA q : q >= k)
    IN  before \o <<k>> \o [j \in DOMAIN after |-> after[j] + 2]

\* Q was run on the argument list of P with a font flag and an operand put
\* in at position k
FontPutIn(P, Q, k) ==
    \E flag \in FontFlags :
        /\ Len(Q.args) = Len(P.args) + 2
        /\ Q.args = InsertAt(P.args, k, flag, Q.args[k + 2])

\* process p reads a font flag in this step
ReadsFont(p) ==
    /\ procs[p].pc = "parse"
    /\ procs[p].pos < Len(procs[p].args)
    /\ CurrentArg(procs[p]) \in FontFlags
    /\ procs'[p] # procs[p]

(***************************************************************************)
(* C17.  -f / --font takes the one token after it as its operand, whatever *)
(* that token is, and changes no field of the Configuration; and an        *)
(* accepted argument list with -f X put in at one of its flag positions is *)
(* accepted with the same Configuration, the tokens after X being read at  *)
(* the positions they were read at before, moved by two.                   *)
(***************************************************************************)
C17_FontNoOp ==
    /\ [](\A p, q \in DOMAIN procs :
             \A k \in FlagPositions(procs[p]) :
                 (/\ Accepted(procs[p])
                  /\ procs[p].status # "running"
                  /\ FontPutIn(procs[p], procs[q], k)
                  /\ procs[q].pc \notin {"start", "parse"}) =>
                     /\ Accepted(procs[q])
                     /\ procs[q].config = procs[p].config
                     /\ procs[q].visited = ShiftedVisits(procs[p].visited, k)
                     /\ procs[q].pos = procs[p].pos + 2)
    /\ [][\A p \in DOMAIN procs :
             ReadsFont(p) =>
                 /\ procs'[p].config = procs[p].config
                 /\ procs'[p].err = procs[p].err
                 /\ procs'[p].pc = "parse"
                 /\ procs'[p].pos = procs[p].pos + 2]_vars

\* a list with two buttons was run again with -f -h between the buttons
\* and gave the same two buttons
C17_Witness ==
    /\ Len(procs) = 2
    /\ Accepted(procs[1])
    /\ Accepted(procs[2])
    /\ procs[2].pc = "exited"
    /\ Len(procs[1].config.buttons) = 2
    /\ Len(procs[1].visited) = 2
    /\ FontPutIn(procs[1], procs[2], procs[1].visited[2])
    /\ procs[2].args[procs[1].visited[2] + 2] = F_h
    /\ procs[2].config = procs[1].config

(***************************************************************************)
(* C19.  The message type is WARNING exactly when one of the -t / --type   *)
(* flags read so far had "warning", in any mix of cases, as its operand,   *)
(* and ERROR otherwise: the operand "error" assigns nothing, so a later    *)
(* -t error does not take an earlier warning back.                         *)
(***************************************************************************)
\* the iterations of the parse of P that read -t / --type with the operand
\* word in some mix of cases
TypeReads(P, word) ==
    {k \in DOMAIN P.visited :
        /\ ArgAt(P, P.visited[k]) \in TypeFlags
        /\ P.visited[k] + 1 < Len(P.args)
        /\ SpellingOf(ArgAt(P, P.visited[k] + 1), word)}

C19_WarningSticks ==
    \A p \in DOMAIN procs :
        /\ procs[p].config.message_type \in {"WARNING", "ERROR"}
        /\ procs[p].config.message_type = "WARNING" <=>
              TypeReads(procs[p], StrWarning) # {}

\* accepted with -t warning read before -t error: the type is WARNING
C19_Witness ==
    \E p \in DOMAIN procs :
        /\ Accepted(procs[p])
        /\ procs[p].config.message_type = "WARNING"
        /\ \E j \in TypeReads(procs[p], StrWarning) :
              \E k \in TypeReads(procs[p], StrError) : j < k

(***************************************************************************)
(* C20.  Configuration::new ends on every argument list and reads nothing  *)
(* outside it: the cursor starts at 1, every iteration reads its flag at a *)
(* position inside the list and leaves the cursor further right, an        *)
(* operand outside the list is reported as missing and not read, and the   *)
(* loop ends with Ok once the cursor is at or past the length of the list, *)
(* one past it when -f was the last token.                                 *)
(***************************************************************************)
\* the cursor of P and the positions its parse has read flags at
C20_CursorOf(P) ==
    LET n == Len(P.visited)
    IN  /\ P.pos >= 1
        /\ P.pos <= Len(P.args) + 1
        /\ n >= 1 => P.visited[1] = 1
        /\ \A k \in 1..n : P.visited[k] >= 1 /\ P.visited[k] < Len(P.args)
        /\ \A k \in 1..(n - 1) : P.visited[k] < P.visited[k + 1]
        /\ (n >= 1 /\ P.pc = "parse") => P.visited[n] < P.pos
        /\ (n >= 1 /\ P.pc = "error") => P.visited[n] <= P.pos
        /\ P.err.error_type = "MissingArgument" => P.pos >= Len(P.args)
        /\ Accepted(P) =>
              /\ P.pos >= Len(P.args)
              /\ P.pos > Len(P.args) =>
                    (n >= 1 /\ ArgAt(P, P.visited[n]) \in FontFlags
                            /\ P.visited[n] = Len(P.args) - 1)

C20_Terminates ==
    /\ [](\A p \in DOMAIN procs :
             (procs[p].mode = "NormalLaunch") => C20_CursorOf(procs[p]))
    /\ [][\A p \in DOMAIN procs :
             /\ procs[p].pc = "start" =>
                   (procs'[p].pc = "parse" => procs'[p].pos = 1)
             /\ procs[p].pc = "parse" =>
                   /\ procs'[p].pos >= procs[p].pos
                   /\ (procs'[p] # procs[p] /\ procs'[p].pc = "parse") =>
                         procs'[p].pos > procs[p].pos
                   /\ procs'[p].pc = "ok" => procs[p].pos >= Len(procs[p].args)]_vars
    /\ <>(\A p \in DOMAIN procs : procs[p].pc \notin {"start", "parse"})

\* a list with -f as its last token is accepted with the cursor one past
\* the end
C20_Witness ==
    \E p \in DOMAIN procs :
        /\ Accepted(procs[p])
        /\ procs[p].pos = Len(procs[p].args) + 1
        /\ Len(procs[p].visited) >= 2

====
